---- MODULE Spec2Model ----
(***************************************************************************)
(* Model of ion_functions/data/vel_functions.py: the coordinate validators *)
(* valid_lat / valid_lon, the orchestrator vel_mag_correction and the four *)
(* instrument adapters nobska_mag_corr_east/north, nortek_mag_corr_east/   *)
(* north.                                                                  *)
(*                                                                         *)
(* Values.  A Python/numpy value is a record [py, shape, data]:            *)
(*   py    = TRUE for a plain Python number (it has no .shape attribute    *)
(*           and is not an instance of np.ndarray), FALSE for an ndarray;  *)
(*   shape = <<>> for a scalar or a 0-d array, <<n>> for a 1-d array;      *)
(*   data  = the elements (one element when shape = <<>>).                 *)
(* A coordinate element is [nan, x]: IEEE NaN or the number x.  A velocity *)
(* element is an exact rational [n, d] in lowest terms.                    *)
(*                                                                         *)
(* numpy is the one the module was written for: np.float is the builtin    *)
(* float (the alias was removed in numpy 1.24).                            *)
(*                                                                         *)
(* generic_functions.magnetic_declination and magnetic_correction are      *)
(* imported (line 12) and not part of this file; they are modelled from    *)
(* the specification's sections 4.2 and 4.3.                               *)
(***************************************************************************)
EXTENDS Integers, Sequences, FiniteSets, TLC

\* Longest 1-d array the model feeds to the functions.
MaxLen == 2

\* The fill value of lines 84, 138, 195, 250.
FillValue == -9999

VARIABLES pc, call, events, out, prev, session

vars == <<pc, call, events, out, prev, session>>

-----------------------------------------------------------------------------
\* Numbers

Abs(x) == IF x < 0 THEN -x ELSE x

RECURSIVE GCD(_, _)
GCD(a, b) == IF b = 0 THEN a ELSE GCD(b, a % b)

\* The rational n/d in lowest terms, d > 0.
Rat(n, d) ==
    LET g == GCD(Abs(n), d)
    IN  [n |-> n \div g, d |-> d \div g]

Num(x) == [nan |-> FALSE, x |-> x]
NaN == [nan |-> TRUE, x |-> 0]

\* IEEE comparisons: every comparison with NaN is false.
Gt(a, k) == ~a.nan /\ a.x > k
Lt(a, k) == ~a.nan /\ a.x < k
Le(k, a) == ~a.nan /\ k <= a.x
Ge(k, a) == ~a.nan /\ a.x <= k

-----------------------------------------------------------------------------
\* Values

PyScalar(x) == [py |-> TRUE, shape |-> <<>>, data |-> <<x>>]
ZeroD(x) == [py |-> FALSE, shape |-> <<>>, data |-> <<x>>]
NdArray(s) == [py |-> FALSE, shape |-> <<Len(s)>>, data |-> s]

Size(shape) == IF shape = <<>> THEN 1 ELSE shape[1]

Omitted == <<>>
Default(arg, dflt) == IF arg = Omitted THEN dflt ELSE arg[1]

Return(v) == [kind |-> "return", exc |-> "", val |-> v]
Raise(e) == [kind |-> "raise", exc |-> e, val |-> <<>>]

-----------------------------------------------------------------------------
\* numpy broadcasting of two shapes (each <<>> or <<n>>)

BroadcastOk(s1, s2) ==
    \/ s1 = <<>>
    \/ s2 = <<>>
    \/ s1[1] = s2[1]
    \/ s1[1] = 1
    \/ s2[1] = 1

BroadcastShape(s1, s2) ==
    IF s1 = <<>> THEN s2
    ELSE IF s2 = <<>> THEN s1
    ELSE IF s1[1] = 1 THEN s2
    ELSE s1

\* Element i of a value broadcast to a larger shape.
At(a, i) == IF Size(a.shape) = 1 THEN a.data[1] ELSE a.data[i]

-----------------------------------------------------------------------------
\* Coordinate validators

\* valid_lat with np.all in place of np.any: an array is rejected only when
\* every element is out of range.
valid_lat_all(lat) ==
    IF ~lat.py
    THEN IF (\A i \in 1..Len(lat.data) : Gt(lat.data[i], 90))
            \/ (\A i \in 1..Len(lat.data) : Lt(lat.data[i], -90))
         THEN FALSE
         ELSE TRUE
    ELSE Le(-90, lat.data[1]) /\ Ge(90, lat.data[1])

\* valid_lat, lines 15-24
valid_lat(lat) ==
    IF ~lat.py
    THEN IF (\E i \in 1..Len(lat.data) : Gt(lat.data[i], 90))
            \/ (\E i \in 1..Len(lat.data) : Lt(lat.data[i], -90))
         THEN FALSE
         ELSE TRUE
    ELSE Le(-90, lat.data[1]) /\ Ge(90, lat.data[1])

\* valid_lon, lines 27-36
valid_lon(lon) ==
    IF ~lon.py
    THEN IF (\E i \in 1..Len(lon.data) : Gt(lon.data[i], 180))
            \/ (\E i \in 1..Len(lon.data) : Lt(lon.data[i], -180))
         THEN FALSE
         ELSE TRUE
    ELSE Le(-180, lon.data[1]) /\ Ge(180, lon.data[1])

-----------------------------------------------------------------------------
\* The collaborators imported from generic_functions (line 12)

\* Times (NTP seconds, scaled down) for which the field model has an answer.
ModelWindow == 0..5

\* The declination, in degrees, at one position, height and time: some
\* deterministic function of all four arguments.
ThetaAt(la, lo, vertical, ts) == 90 * ((la.x + 2 * lo.x + vertical + ts) % 4)

\* magnetic_declination(lat, lon, ntp_timestamp, z, zflag): the declination
\* at the signed vertical coordinate zflag * z, one angle per sample; a time
\* outside the model's window is a failure.
magnetic_declination(lat, lon, ntp_timestamp, z, zflag) ==
    LET vertical == zflag * z
        shape == BroadcastShape(lat.shape, lon.shape)
        n == Size(shape)
    IN  IF ntp_timestamp \notin ModelWindow
        THEN [ok |-> FALSE, exc |-> "ModelDomainError", vertical |-> vertical,
              theta |-> ZeroD(0)]
        ELSE IF ~BroadcastOk(lat.shape, lon.shape)
        THEN [ok |-> FALSE, exc |-> "ValueError", vertical |-> vertical,
              theta |-> ZeroD(0)]
        ELSE [ok |-> TRUE, exc |-> "", vertical |-> vertical,
              theta |-> [py |-> FALSE, shape |-> shape,
                         data |-> [i \in 1..n |->
                             ThetaAt(At(lat, i), At(lon, i), vertical,
                                     ntp_timestamp)]]]

Cos(theta) == CASE theta = 0 -> 1 [] theta = 90 -> 0
                [] theta = 180 -> -1 [] theta = 270 -> 0
Sin(theta) == CASE theta = 0 -> 0 [] theta = 90 -> 1
                [] theta = 180 -> 0 [] theta = 270 -> -1

\* magnetic_correction(theta, u, v): the planar rotation of (u, v) by theta.
magnetic_correction(theta, u, v) ==
    <<Rat(u.n * v.d * Cos(theta) - v.n * u.d * Sin(theta), u.d * v.d),
      Rat(u.n * v.d * Sin(theta) + v.n * u.d * Cos(theta), u.d * v.d)>>

-----------------------------------------------------------------------------
\* Executions: what a call did (events, in order) and how it ended (out).

\* An invocation of the declination provider: the arguments passed, the
\* vertical coordinate the provider evaluated the field at, and its answer.
DeclinationEvent(lat, lon, ts, z, zflag, d) ==
    [op |-> "magnetic_declination", args |-> <<lat, lon, ts, z, zflag>>,
     vertical |-> d.vertical, ok |-> d.ok, exc |-> d.exc, theta |-> d.theta]

\* The (vectorized) invocation of the rotation corrector.
CorrectionEvent ==
    [op |-> "magnetic_correction", args |-> <<>>, vertical |-> 0,
     ok |-> TRUE, exc |-> "", theta |-> ZeroD(0)]

\* An evaluation of valid_lat or valid_lon and its result.
CheckEvent(name, res) ==
    [op |-> name, args |-> <<>>, vertical |-> 0, ok |-> res, exc |-> "",
     theta |-> ZeroD(0)]

\* magvar without broadcasting: the result takes u's shape, and a per-sample
\* theta is read only as far as u goes.
magvar_like_u(theta, u, v) ==
    LET ok == BroadcastOk(theta.shape, u.shape) /\ u.shape = v.shape
        n == Size(u.shape)
        cor == [i \in 1..n |->
                   magnetic_correction(At(theta, i), At(u, i), At(v, i))]
    IN  IF ~ok \/ n = 0
        THEN Raise("ValueError")
        ELSE Return(<<[py |-> FALSE, shape |-> u.shape,
                       data |-> [i \in 1..n |-> cor[i][1]]],
                      [py |-> FALSE, shape |-> u.shape,
                       data |-> [i \in 1..n |-> cor[i][2]]]>>)

\* magvar(theta, u, v) with magvar = np.vectorize(magnetic_correction),
\* lines 430-431: the three arguments are broadcast against each other and
\* the corrector is applied per element.  np.vectorize, without otypes,
\* refuses inputs of size 0.
magvar(theta, u, v) ==
    LET ok1 == BroadcastOk(theta.shape, u.shape)
        s1 == BroadcastShape(theta.shape, u.shape)
        ok2 == ok1 /\ BroadcastOk(s1, v.shape)
        shape == BroadcastShape(s1, v.shape)
        n == Size(shape)
        cor == [i \in 1..n |->
                   magnetic_correction(At(theta, i), At(u, i), At(v, i))]
    IN  IF ~ok2 \/ n = 0
        THEN Raise("ValueError")
        ELSE Return(<<[py |-> FALSE, shape |-> shape,
                       data |-> [i \in 1..n |-> cor[i][1]]],
                      [py |-> FALSE, shape |-> shape,
                       data |-> [i \in 1..n |-> cor[i][2]]]>>)

\* vel_mag_correction with zflag defaulting to +1 (height).
vel_mag_correction_height(u, v, lat, lon, ntp_timestamp, z, zflag) ==
    LET zz == Default(z, 0)
        zf == Default(zflag, 1)
        d == magnetic_declination(lat, lon, ntp_timestamp, zz, zf)
        ev == DeclinationEvent(lat, lon, ntp_timestamp, zz, zf, d)
    IN  IF ~d.ok
        THEN [events |-> <<ev>>, out |-> Raise(d.exc)]
        ELSE [events |-> <<ev, CorrectionEvent>>,
              out |-> magvar(d.theta, u, v)]

\* vel_mag_correction checking the position itself, as the adapters do, and
\* answering a bad one with fill values.
vel_mag_correction_validating(u, v, lat, lon, ntp_timestamp, z, zflag) ==
    LET zz == Default(z, 0)
        zf == Default(zflag, -1)
        d == magnetic_declination(lat, lon, ntp_timestamp, zz, zf)
        ev == DeclinationEvent(lat, lon, ntp_timestamp, zz, zf, d)
        fill == [py |-> FALSE, shape |-> u.shape,
                 data |-> [i \in 1..Size(u.shape) |-> Rat(FillValue, 1)]]
    IN  IF ~valid_lat(lat) \/ ~valid_lon(lon)
        THEN [events |-> <<>>, out |-> Return(<<fill, fill>>)]
        ELSE IF ~d.ok
        THEN [events |-> <<ev>>, out |-> Raise(d.exc)]
        ELSE [events |-> <<ev, CorrectionEvent>>,
              out |-> magvar(d.theta, u, v)]

\* vel_mag_correction, lines 364-433.  z and zflag are optional (z=0.0,
\* zflag=-1).
vel_mag_correction(u, v, lat, lon, ntp_timestamp, z, zflag) ==
    LET zz == Default(z, 0)
        zf == Default(zflag, -1)
        d == magnetic_declination(lat, lon, ntp_timestamp, zz, zf)
        ev == DeclinationEvent(lat, lon, ntp_timestamp, zz, zf, d)
    IN  IF ~d.ok
        THEN [events |-> <<ev>>, out |-> Raise(d.exc)]
        ELSE [events |-> <<ev, CorrectionEvent>>,
              out |-> magvar(d.theta, u, v)]

-----------------------------------------------------------------------------
\* Instrument adapters

\* "not valid_lat(lat) or not valid_lon(lon)", lines 83, 137, 194, 249:
\* valid_lon is evaluated only when the latitude passed.
PositionCheck(lat, lon) ==
    IF ~valid_lat(lat)
    THEN [invalid |-> TRUE,
          events |-> <<CheckEvent("valid_lat", FALSE)>>]
    ELSE [invalid |-> ~valid_lon(lon),
          events |-> <<CheckEvent("valid_lat", TRUE),
                       CheckEvent("valid_lon", valid_lon(lon))>>]

\* np.ones(u.shape, dtype=np.float) * -9999, lines 84, 138, 195, 250.  A
\* plain Python number has no attribute shape.
FillArray(u) ==
    IF u.py
    THEN Raise("AttributeError")
    ELSE Return(<<[py |-> FALSE, shape |-> u.shape,
                   data |-> [i \in 1..Size(u.shape) |-> Rat(FillValue, 1)]]>>)

\* ne.evaluate('u_cor / 100.'), lines 88 and 142
Div100(a) ==
    [py |-> FALSE, shape |-> a.shape,
     data |-> [i \in 1..Len(a.data) |-> Rat(a.data[i].n, a.data[i].d * 100)]]

\* nobska_mag_corr_east computing the correction before it looks at the
\* position.
nobska_mag_corr_east_eager(u, v, lat, lon, timestamp, z) ==
    LET chk == PositionCheck(lat, lon)
        r == vel_mag_correction(u, v, lat, lon, timestamp,
                                <<Default(z, 0)>>, Omitted)
    IN  IF chk.invalid
        THEN [events |-> r.events \o chk.events, out |-> FillArray(u)]
        ELSE [events |-> r.events \o chk.events,
              out |-> IF r.out.kind = "raise" THEN r.out
                      ELSE Return(<<Div100(r.out.val[1])>>)]

\* nobska_mag_corr_east, lines 40-91
nobska_mag_corr_east(u, v, lat, lon, timestamp, z) ==
    LET chk == PositionCheck(lat, lon)
        r == vel_mag_correction(u, v, lat, lon, timestamp,
                                <<Default(z, 0)>>, Omitted)
    IN  IF chk.invalid
        THEN [events |-> chk.events, out |-> FillArray(u)]
        ELSE [events |-> chk.events \o r.events,
              out |-> IF r.out.kind = "raise" THEN r.out
                      ELSE Return(<<Div100(r.out.val[1])>>)]

\* nobska_mag_corr_north not handing its z on to vel_mag_correction.
nobska_mag_corr_north_no_z(u, v, lat, lon, timestamp, z) ==
    LET chk == PositionCheck(lat, lon)
        r == vel_mag_correction(u, v, lat, lon, timestamp, Omitted, Omitted)
    IN  IF chk.invalid
        THEN [events |-> chk.events, out |-> FillArray(u)]
        ELSE [events |-> chk.events \o r.events,
              out |-> IF r.out.kind = "raise" THEN r.out
                      ELSE Return(<<Div100(r.out.val[2])>>)]

\* nobska_mag_corr_north, lines 94-145
nobska_mag_corr_north(u, v, lat, lon, timestamp, z) ==
    LET chk == PositionCheck(lat, lon)
        r == vel_mag_correction(u, v, lat, lon, timestamp,
                                <<Default(z, 0)>>, Omitted)
    IN  IF chk.invalid
        THEN [events |-> chk.events, out |-> FillArray(u)]
        ELSE [events |-> chk.events \o r.events,
              out |-> IF r.out.kind = "raise" THEN r.out
                      ELSE Return(<<Div100(r.out.val[2])>>)]

\* The conversion of line 199, which the source has commented out.
Div1000(a) ==
    [py |-> FALSE, shape |-> a.shape,
     data |-> [i \in 1..Len(a.data) |-> Rat(a.data[i].n, a.data[i].d * 1000)]]

\* nortek_mag_corr_east with line 199 in force (mm/s to m/s).
nortek_mag_corr_east_mm(u, v, lat, lon, timestamp, z) ==
    LET chk == PositionCheck(lat, lon)
        r == vel_mag_correction(u, v, lat, lon, timestamp,
                                <<Default(z, 0)>>, Omitted)
    IN  IF chk.invalid
        THEN [events |-> chk.events, out |-> FillArray(u)]
        ELSE [events |-> chk.events \o r.events,
              out |-> IF r.out.kind = "raise" THEN r.out
                      ELSE Return(<<Div1000(r.out.val[1])>>)]

\* nortek_mag_corr_east, lines 150-202
nortek_mag_corr_east(u, v, lat, lon, timestamp, z) ==
    LET chk == PositionCheck(lat, lon)
        r == vel_mag_correction(u, v, lat, lon, timestamp,
                                <<Default(z, 0)>>, Omitted)
    IN  IF chk.invalid
        THEN [events |-> chk.events, out |-> FillArray(u)]
        ELSE [events |-> chk.events \o r.events,
              out |-> IF r.out.kind = "raise" THEN r.out
                      ELSE Return(<<r.out.val[1]>>)]

\* nortek_mag_corr_north answering a failed correction with fill values.
nortek_mag_corr_north_catch(u, v, lat, lon, timestamp, z) ==
    LET chk == PositionCheck(lat, lon)
        r == vel_mag_correction(u, v, lat, lon, timestamp,
                                <<Default(z, 0)>>, Omitted)
    IN  IF chk.invalid
        THEN [events |-> chk.events, out |-> FillArray(u)]
        ELSE [events |-> chk.events \o r.events,
              out |-> IF r.out.kind = "raise" THEN FillArray(u)
                      ELSE Return(<<r.out.val[2]>>)]

\* nortek_mag_corr_north, lines 205-257
nortek_mag_corr_north(u, v, lat, lon, timestamp, z) ==
    LET chk == PositionCheck(lat, lon)
        r == vel_mag_correction(u, v, lat, lon, timestamp,
                                <<Default(z, 0)>>, Omitted)
    IN  IF chk.invalid
        THEN [events |-> chk.events, out |-> FillArray(u)]
        ELSE [events |-> chk.events \o r.events,
              out |-> IF r.out.kind = "raise" THEN r.out
                      ELSE Return(<<r.out.val[2]>>)]

Adapters == {"nobska_mag_corr_east", "nobska_mag_corr_north",
             "nortek_mag_corr_east", "nortek_mag_corr_north"}

\* The adapter named fn applied to the arguments of the call record c.
RunAdapter(fn, c) ==
    CASE fn = "nobska_mag_corr_east" ->
             nobska_mag_corr_east(c.u, c.v, c.lat, c.lon, c.timestamp, c.z)
      [] fn = "nobska_mag_corr_north" ->
             nobska_mag_corr_north(c.u, c.v, c.lat, c.lon, c.timestamp, c.z)
      [] fn = "nortek_mag_corr_east" ->
             nortek_mag_corr_east(c.u, c.v, c.lat, c.lon, c.timestamp, c.z)
      [] fn = "nortek_mag_corr_north" ->
             nortek_mag_corr_north(c.u, c.v, c.lat, c.lon, c.timestamp, c.z)

-----------------------------------------------------------------------------
\* Inputs

SeqsUpTo(S, n) == UNION {[1..k -> S] : k \in 0..n}

\* Velocity samples (u, v).
VelSamples == {<<100, 3>>, <<-25, 40>>}

Us(s) == [i \in 1..Len(s) |-> Rat(s[i][1], 1)]
Vs(s) == [i \in 1..Len(s) |-> Rat(s[i][2], 1)]

\* u and v share their shape: two Python numbers, two 0-d arrays, or two
\* 1-d arrays of up to MaxLen samples.
VelInputs ==
    {[u |-> PyScalar(Rat(p[1], 1)), v |-> PyScalar(Rat(p[2], 1))] :
        p \in VelSamples}
    \cup {[u |-> ZeroD(Rat(p[1], 1)), v |-> ZeroD(Rat(p[2], 1))] :
        p \in VelSamples}
    \cup {[u |-> NdArray(Us(s)), v |-> NdArray(Vs(s))] :
        s \in SeqsUpTo(VelSamples, MaxLen)}

LatVals == {Num(-91), Num(-90), Num(90), Num(91), NaN}
LonVals == {Num(-181), Num(-180), Num(180), Num(181), NaN}

\* An array of n elements, all good except element k (none when k = 0).
OneBad(n, k, good, bad) == [i \in 1..n |-> IF i = k THEN bad ELSE good]

\* Positions given to the adapters and the orchestrator: a Python number, or
\* an array of 1..MaxLen elements of which at most one is not the in-range
\* value.
LatInputs ==
    {PyScalar(x) : x \in LatVals}
    \cup {NdArray(OneBad(n, 0, Num(90), NaN)) : n \in 1..MaxLen}
    \cup {NdArray(OneBad(n, k, Num(90), bad)) :
            n \in 1..MaxLen, k \in 1..MaxLen, bad \in {Num(-91), Num(91), NaN}}

LonInputs ==
    {PyScalar(x) : x \in LonVals}
    \cup {NdArray(OneBad(n, 0, Num(-180), NaN)) : n \in 1..MaxLen}
    \cup {NdArray(OneBad(n, k, Num(-180), bad)) :
            n \in 1..MaxLen, k \in 1..MaxLen,
            bad \in {Num(-181), Num(181), NaN}}

\* Positions given to the validators alone: any array of up to MaxLen
\* elements.
LatArgs == {PyScalar(x) : x \in LatVals}
           \cup {NdArray(s) : s \in SeqsUpTo(LatVals, MaxLen)}
LonArgs == {PyScalar(x) : x \in LonVals}
           \cup {NdArray(s) : s \in SeqsUpTo(LonVals, MaxLen)}

\* One time inside the field model's window and one outside it.
Timestamps == {3, 8}

\* z omitted, or a depth of 10 m.
ZArgs == {Omitted, <<10>>}
ZflagArgs == {Omitted, <<-1>>, <<1>>}

-----------------------------------------------------------------------------
\* The state machine: a caller invoking the functions one after the other.
\*   pc      "idle", or "returned"/"raised" after a call
\*   call    the call's function and arguments
\*   events  what the call did, in order
\*   out     how the call ended
\*   prev    the calls made before with the same arguments (function, out)
\*   session the provider invocations of those calls and of this one

NoArg == PyScalar(Num(0))
NoVel == PyScalar(Rat(0, 1))

NoCall == [fn |-> "", u |-> NoVel, v |-> NoVel, lat |-> NoArg,
           lon |-> NoArg, timestamp |-> 0, z |-> Omitted, zflag |-> Omitted]

Init ==
    /\ pc = "idle"
    /\ call = NoCall
    /\ events = <<>>
    /\ out = Return(<<>>)
    /\ prev = <<>>
    /\ session = <<>>

ProviderCalls(ev) == SelectSeq(ev, LAMBDA e : e.op = "magnetic_declination")

Finish(c, ex) ==
    /\ call' = c
    /\ events' = ex.events
    /\ out' = ex.out
    /\ pc' = IF ex.out.kind = "raise" THEN "raised" ELSE "returned"

\* The argument lists a caller passes to an adapter.
AdapterCalls(fn) ==
    {[fn |-> fn, u |-> vel.u, v |-> vel.v, lat |-> lat, lon |-> lon,
      timestamp |-> ts, z |-> z, zflag |-> Omitted] :
        vel \in VelInputs, lat \in LatInputs, lon \in LonInputs,
        ts \in Timestamps, z \in ZArgs}

NobskaEast ==
    /\ pc = "idle"
    /\ \E c \in AdapterCalls("nobska_mag_corr_east") :
          LET ex == nobska_mag_corr_east(c.u, c.v, c.lat, c.lon,
                                         c.timestamp, c.z)
          IN  Finish(c, ex) /\ session' = ProviderCalls(ex.events)
    /\ prev' = <<>>

NobskaNorth ==
    /\ pc = "idle"
    /\ \E c \in AdapterCalls("nobska_mag_corr_north") :
          LET ex == nobska_mag_corr_north(c.u, c.v, c.lat, c.lon,
                                          c.timestamp, c.z)
          IN  Finish(c, ex) /\ session' = ProviderCalls(ex.events)
    /\ prev' = <<>>

NortekEast ==
    /\ pc = "idle"
    /\ \E c \in AdapterCalls("nortek_mag_corr_east") :
          LET ex == nortek_mag_corr_east(c.u, c.v, c.lat, c.lon,
                                         c.timestamp, c.z)
          IN  Finish(c, ex) /\ session' = ProviderCalls(ex.events)
    /\ prev' = <<>>

NortekNorth ==
    /\ pc = "idle"
    /\ \E c \in AdapterCalls("nortek_mag_corr_north") :
          LET ex == nortek_mag_corr_north(c.u, c.v, c.lat, c.lon,
                                          c.timestamp, c.z)
          IN  Finish(c, ex) /\ session' = ProviderCalls(ex.events)
    /\ prev' = <<>>

VelMagCorrection ==
    /\ pc = "idle"
    /\ \E vel \in VelInputs, lat \in LatInputs, lon \in LonInputs,
          ts \in Timestamps, z \in ZArgs, zflag \in ZflagArgs :
          LET c == [fn |-> "vel_mag_correction", u |-> vel.u, v |-> vel.v,
                    lat |-> lat, lon |-> lon, timestamp |-> ts, z |-> z,
                    zflag |-> zflag]
              ex == vel_mag_correction(c.u, c.v, c.lat, c.lon, c.timestamp,
                                       c.z, c.zflag)
          IN  /\ Finish(c, ex)
              /\ session' = ProviderCalls(ex.events)
    /\ prev' = <<>>

ValidLat ==
    /\ pc = "idle"
    /\ \E lat \in LatArgs :
          Finish([NoCall EXCEPT !.fn = "valid_lat", !.lat = lat],
                 [events |-> <<>>, out |-> Return(<<valid_lat(lat)>>)])
    /\ UNCHANGED <<prev, session>>

ValidLon ==
    /\ pc = "idle"
    /\ \E lon \in LonArgs :
          Finish([NoCall EXCEPT !.fn = "valid_lon", !.lon = lon],
                 [events |-> <<>>, out |-> Return(<<valid_lon(lon)>>)])
    /\ UNCHANGED <<prev, session>>

\* A second adapter call with the arguments of the one just made: the same
\* adapter again, or another one.
Again ==
    /\ pc # "idle"
    /\ call.fn \in Adapters
    /\ prev = <<>>
    /\ \E fn \in Adapters :
          LET c == [call EXCEPT !.fn = fn]
              ex == RunAdapter(fn, c)
          IN  /\ Finish(c, ex)
              /\ session' = session \o ProviderCalls(ex.events)
    /\ prev' = <<[fn |-> call.fn, out |-> out]>>

\* The caller drops the result and starts over.
Forget ==
    /\ pc # "idle"
    /\ pc' = "idle"
    /\ call' = NoCall
    /\ events' = <<>>
    /\ out' = Return(<<>>)
    /\ prev' = <<>>
    /\ session' = <<>>

Next ==
    \/ NobskaEast
    \/ NobskaNorth
    \/ NortekEast
    \/ NortekNorth
    \/ VelMagCorrection
    \/ ValidLat
    \/ ValidLon
    \/ Again
    \/ Forget

Spec == Init /\ [][Next]_vars

-----------------------------------------------------------------------------
\* Vocabulary of the properties

Done == pc # "idle"
AdapterCall == Done /\ call.fn \in Adapters
OrchestratorCall == Done /\ call.fn = "vel_mag_correction"

\* Every element of a lies in [lo, hi] (NaN lies in no interval).
AllWithin(a, lo, hi) ==
    \A i \in 1..Len(a.data) : Le(lo, a.data[i]) /\ Ge(hi, a.data[i])

\* Some element of a is a number below lo or above hi.
SomeOutside(a, lo, hi) ==
    \E i \in 1..Len(a.data) : Lt(a.data[i], lo) \/ Gt(a.data[i], hi)

PositionValid ==
    AllWithin(call.lat, -90, 90) /\ AllWithin(call.lon, -180, 180)
PositionOutOfRange ==
    SomeOutside(call.lat, -90, 90) \/ SomeOutside(call.lon, -180, 180)

\* The call returned one array of u's shape holding -9999 throughout.
FillResult ==
    /\ pc = "returned"
    /\ out.kind = "return"
    /\ Len(out.val) = 1
    /\ out.val[1].shape = call.u.shape
    /\ Len(out.val[1].data) = Size(call.u.shape)
    /\ \A i \in 1..Len(out.val[1].data) :
          out.val[1].data[i] = [n |-> -9999, d |-> 1]

Invoked(op) == \E i \in 1..Len(events) : events[i].op = op

\* Which component an adapter selects, and its unit factor 1/UnitDivisor.
Component(fn) == IF fn \in {"nobska_mag_corr_east", "nortek_mag_corr_east"}
                 THEN 1 ELSE 2
UnitDivisor(fn) == IF fn \in {"nobska_mag_corr_east", "nobska_mag_corr_north"}
                   THEN 100 ELSE 1

-----------------------------------------------------------------------------
\* C1: an adapter called with a latitude (scalar or any array element) below
\* -90 or above 90, or a longitude below -180 or above 180, returns an array
\* of u's shape holding -9999 everywhere, whatever v, timestamp, z and the
\* other coordinate are.  u is an array, i.e. has a shape (a u without one is
\* the case of C4).
C1_InvalidPositionGivesFill ==
    (AdapterCall /\ ~call.u.py /\ PositionOutOfRange) => FillResult

C1_Witness ==
    /\ AdapterCall
    /\ call.fn = "nortek_mag_corr_north"
    /\ call.lat = NdArray(<<Num(90), Num(91)>>)
    /\ call.u.shape = <<2>>
    /\ FillResult

\* C2: with a valid position an adapter ends as vel_mag_correction(u, v, lat,
\* lon, timestamp, z) does, and what it returns is the east (index 0) or
\* north (index 1) component times the unit factor: 1/100 for the nobska
\* adapters, 1 for the nortek adapters.
C2_AdapterIsScaledComponent ==
    (AdapterCall /\ PositionValid) =>
        LET r == vel_mag_correction(call.u, call.v, call.lat, call.lon,
                                    call.timestamp, call.z, Omitted).out
            k == Component(call.fn)
            f == UnitDivisor(call.fn)
        IN  IF r.kind = "raise"
            THEN out = r
            ELSE /\ pc = "returned"
                 /\ Len(out.val) = 1
                 /\ out.val[1].shape = r.val[k].shape
                 /\ Len(out.val[1].data) = Len(r.val[k].data)
                 /\ \A i \in 1..Len(out.val[1].data) :
                       out.val[1].data[i].n * r.val[k].data[i].d * f
                           = r.val[k].data[i].n * out.val[1].data[i].d

C2_Witness ==
    /\ AdapterCall
    /\ PositionValid
    /\ call.fn = "nobska_mag_corr_north"
    /\ pc = "returned"
    /\ call.u = NdArray(<<Rat(100, 1), Rat(-25, 1)>>)
    /\ \E i \in 1..2 : out.val[1].data[i].d # 1

\* C3: an adapter called with an out-of-range position invokes neither the
\* declination provider nor the rotation corrector (and, u being an array,
\* ends with the fill result); whenever an adapter does invoke the provider,
\* valid_lat and valid_lon have both been evaluated before, and both passed.
C3_InvalidPositionShortCircuits ==
    AdapterCall =>
        /\ PositionOutOfRange =>
              /\ ~Invoked("magnetic_declination")
              /\ ~Invoked("magnetic_correction")
              /\ ~call.u.py => FillResult
        /\ \A i \in 1..Len(events) :
              events[i].op \in {"magnetic_declination", "magnetic_correction"}
              => /\ \E j \in 1..(i - 1) :
                       events[j].op = "valid_lat" /\ events[j].ok
                 /\ \E j \in 1..(i - 1) :
                       events[j].op = "valid_lon" /\ events[j].ok

C3_Witness ==
    /\ AdapterCall
    /\ call.lon = PyScalar(Num(-181))
    /\ Len(events) = 2
    /\ events[1].op = "valid_lat" /\ events[1].ok
    /\ events[2].op = "valid_lon" /\ ~events[2].ok
    /\ FillResult

\* C4: for every velocity input (u a scalar or an array) and every
\* out-of-range lat or lon, an adapter call returns the -9999 fill result and
\* never raises.
C4_InvalidPositionNeverRaises ==
    (AdapterCall /\ PositionOutOfRange) => FillResult

\* C5: valid_lat(lat) is true exactly when every element of lat lies in
\* [-90, 90], valid_lon(lon) exactly when every element of lon lies in
\* [-180, 180], for a scalar and for an array alike (NaN included).
C5_ValidatorsAreElementwiseRange ==
    /\ (Done /\ call.fn = "valid_lat") =>
          (out.val[1] <=> AllWithin(call.lat, -90, 90))
    /\ (Done /\ call.fn = "valid_lon") =>
          (out.val[1] <=> AllWithin(call.lon, -180, 180))

\* C6: when the declination provider fails, vel_mag_correction ends with
\* that failure, and so does an adapter called with a valid position: no
\* fill value or other result is returned in its place.
C6_ProviderFailurePropagates ==
    (OrchestratorCall \/ (AdapterCall /\ PositionValid)) =>
        LET d == magnetic_declination(call.lat, call.lon, call.timestamp,
                                      Default(call.z, 0),
                                      Default(call.zflag, -1))
        IN  ~d.ok => /\ pc = "raised"
                     /\ out = [kind |-> "raise", exc |-> d.exc, val |-> <<>>]

C6_Witness ==
    /\ AdapterCall
    /\ PositionValid
    /\ call.fn = "nortek_mag_corr_north"
    /\ call.timestamp \notin ModelWindow
    /\ pc = "raised"
    /\ out.exc = "ModelDomainError"

\* C7: vel_mag_correction asks for the declination at the vertical
\* coordinate zflag * z: -10 for z=10, zflag=-1; +10 for z=10, zflag=+1; -z
\* when zflag is omitted.
C7_SignedVerticalCoordinate ==
    OrchestratorCall =>
        /\ Len(events) >= 1
        /\ events[1].op = "magnetic_declination"
        /\ (call.z = <<10>> /\ call.zflag = <<-1>>) => events[1].vertical = -10
        /\ (call.z = <<10>> /\ call.zflag = <<1>>) => events[1].vertical = 10
        /\ (call.z = <<10>> /\ call.zflag = Omitted) =>
              events[1].vertical = -10
        /\ call.z = Omitted => events[1].vertical = 0

C7_Witness ==
    /\ OrchestratorCall
    /\ call.z = <<10>>
    /\ call.zflag = <<1>>
    /\ events[1].vertical = 10

C9_OrchestratorDoesNotValidate ==
    OrchestratorCall =>
        /\ Len(events) >= 1
        /\ events[1].op = "magnetic_declination"
        /\ events[1].args[1] = call.lat
        /\ events[1].args[2] = call.lon
        /\ ~Invoked("valid_lat") /\ ~Invoked("valid_lon")
        /\ events[1].ok =>
              \/ pc = "raised" /\ out.exc = "ValueError"
              \/ /\ pc = "returned"
                 /\ \A i \in 1..Len(out.val[1].data) :
                       /\ <<out.val[1].data[i], out.val[2].data[i]>>
                             = magnetic_correction(At(events[1].theta, i),
                                                   At(call.u, i),
                                                   At(call.v, i))
                       /\ out.val[1].data[i] # [n |-> -9999, d |-> 1]
                       /\ out.val[2].data[i] # [n |-> -9999, d |-> 1]

C9_Witness ==
    /\ OrchestratorCall
    /\ call.lat = PyScalar(Num(91))
    /\ call.lon = PyScalar(Num(-181))
    /\ events[1].args[1] = PyScalar(Num(91))
    /\ pc = "returned"

\* C10: an adapter called with a valid position invokes the provider exactly
\* once, with the caller's lat, lon, timestamp and z and with zflag = -1;
\* nothing is kept between calls: a second adapter call with the same
\* arguments invokes the provider again with the same arguments, and the
\* same adapter called again ends exactly as before.
C10_OneProviderCallPerAdapterCall ==
    (AdapterCall /\ PositionValid) =>
        /\ Len(ProviderCalls(events)) = 1
        /\ ProviderCalls(events)[1].args
              = <<call.lat, call.lon, call.timestamp,
                  IF call.z = Omitted THEN 0 ELSE call.z[1], -1>>
        /\ prev # <<>> =>
              /\ Len(session) = 2
              /\ session[1].args = session[2].args
              /\ session[2] = ProviderCalls(events)[1]
              /\ prev[1].fn = call.fn => out = prev[1].out

C10_Witness ==
    /\ AdapterCall
    /\ PositionValid
    /\ prev # <<>>
    /\ prev[1].fn = "nobska_mag_corr_east"
    /\ call.fn = "nobska_mag_corr_north"
    /\ call.z = <<10>>
    /\ prev[1].out.kind = "return"
    /\ pc = "returned"
    /\ Len(session) = 2

====
